---------------------------- MODULE Spec2Model ----------------------------
(***************************************************************************)
(* A model of wordle_ideal_guesses.py: the PrefixTree word index with its  *)
(* memoized wildcard query, the variant enumerator, the exclusion filter   *)
(* and the minimax scoring loop of main().                                 *)
(*                                                                         *)
(* A word is a sequence of one-letter strings, "." is the wildcard.  A     *)
(* PrefixTree object is named by the path of letters that leads to it from *)
(* the root, the root being <<>>; objects are never removed, so the path   *)
(* is the object's identity (the key lru_cache hashes `self` by).          *)
(***************************************************************************)
EXTENDS Integers, Sequences, FiniteSets, TLC

VARIABLES
    tree,       \* the PrefixTree objects: path -> [is_terminal, words, data]
    cache,      \* lru_cache of PrefixTree.__getitem__: <<node, word>> -> result
    op,         \* the last call made on the index through its API
    ret,        \* what that call returned
    ops,        \* number of API calls made so far
    pc,         \* position of main()
    vocabulary, \* get_possible_puzzle_solutions(), a list of words
    built,      \* words of the vocabulary added so far
    selections, \* the tuples the outer loop of main() iterates over
    sel,        \* number of tuples taken from selections so far
    selected_words,             \* main(): the tuple being scored
    variants,                   \* main(): map(variants_of, selected_words)
    combo,                      \* combinations of the inner loop done so far
    variants_and_exclusions,    \* main(): the combination of the last iteration
    trees,                      \* main(): the query results of the last iteration
    remaining_words_for_each_variant,
    intersection,
    worst_case_variant_score,
    pair_scores,
    printed     \* what main() prints at the end

vars == <<tree, cache, op, ret, ops, pc, vocabulary, built, selections, sel,
          selected_words, variants, combo, variants_and_exclusions, trees,
          remaining_words_for_each_variant, intersection,
          worst_case_variant_score, pair_scores, printed>>

indexVars == <<tree, cache>>
apiVars == <<op, ret, ops>>
mainVars == <<pc, vocabulary, built, selections, sel, selected_words, variants,
              combo, variants_and_exclusions, trees,
              remaining_words_for_each_variant, intersection,
              worst_case_variant_score, pair_scores, printed>>

---------------------------------------------------------------------------
(* Bounds and universes *)

\* length of the words of the small universe (5 in the game)
WordLen == 2
\* most words in a vocabulary
MaxVocab == 2
\* most calls made on the index through its methods
MaxOps == 4
\* the slice pair_scores[:100] of main(), scaled down: the 100
TopK == 2
\* the samples it.product multiplies in main(), scaled down: 3 of them
NumPositions == 2
\* the size of each sample, scaled down: 20, 10 and 3 in main()
SampleSize == 2

Letters == {"a", "b"}
WILD == "."

Range(s) == {s[i] : i \in DOMAIN s}

\* all sequences of length n over S
SeqsOfLen(S, n) == [1..n -> S]

Words == SeqsOfLen(Letters, WordLen)
ShortWords == SeqsOfLen(Letters, WordLen - 1)
Patterns == SeqsOfLen(Letters \cup {WILD}, WordLen)

\* code-point order of the lowercase letters, as Python compares strings
Alphabet == <<"a", "b", "c", "d", "e", "f", "g", "h", "i", "j", "k", "l", "m",
              "n", "o", "p", "q", "r", "s", "t", "u", "v", "w", "x", "y", "z">>
Ord(c) == CHOOSE i \in DOMAIN Alphabet : Alphabet[i] = c

---------------------------------------------------------------------------
(* PrefixTree *)

\* PrefixTree.__init__ with data = None
PrefixTree == [is_terminal |-> FALSE, words |-> <<>>, data |-> <<>>]

EmptyTree == [n \in {<<>>} |-> PrefixTree]

\* PrefixTree.add, as run on the root: the tree after add(word)
add(t, word) ==
    LET Pre(i) == SubSeq(word, 1, i)
        path == {Pre(i) : i \in 0..Len(word)}
    IN  [n \in DOMAIN t \cup path |->
            LET old == IF n \in DOMAIN t THEN t[n] ELSE PrefixTree
                onPath == n \in path
                c == word[Len(n) + 1]
                linked == IF onPath /\ Len(n) < Len(word) /\ c \notin Range(old.data)
                          THEN [old EXCEPT !.data = Append(@, c)]
                          ELSE old
            IN  IF n = word
                THEN [linked EXCEPT !.is_terminal = TRUE, !.words = Append(@, word)]
                ELSE linked]

Suffix(word, i) == SubSeq(word, i + 1, Len(word))

\* The lru_cache of __getitem__ is a function from <<node, word>> to the
\* frozenset returned.  Every call of __getitem__, the nested ones included,
\* goes through it: an entry found is returned, a missing one is computed
\* and stored.

RECURSIVE getitem_call(_, _, _, _)
RECURSIVE getitem_children(_, _, _, _, _)
RECURSIVE getitem_walk(_, _, _, _, _)

\* the cache after the calls curr.data[k][word] for the first j keys k of curr
getitem_children(t, c, curr, word, j) ==
    IF j = 0
    THEN c
    ELSE getitem_call(t, getitem_children(t, c, curr, word, j - 1),
                      Append(curr, t[curr].data[j]), word)

\* getitem_walk with a wildcard that follows the first child only
getitem_walk_first_child(t, c, curr, word, i) ==
    IF i > Len(word)
    THEN [res |-> Range(t[curr].words), cache |-> c]
    ELSE IF word[i] = WILD
    THEN LET n == IF Len(t[curr].data) > 0 THEN 1 ELSE 0
             after == getitem_children(t, c, curr, Suffix(word, i), n)
         IN  [res |-> UNION {after[<<Append(curr, t[curr].data[j]), Suffix(word, i)>>] :
                                j \in 1..n},
              cache |-> after]
    ELSE IF word[i] \notin Range(t[curr].data)
    THEN [res |-> {}, cache |-> c]
    ELSE getitem_walk(t, c, Append(curr, word[i]), word, i + 1)

\* the body of PrefixTree.__getitem__ from position i of word, standing at
\* curr: what it returns, and the cache when it returns
getitem_walk(t, c, curr, word, i) ==
    IF i > Len(word)
    THEN [res |-> Range(t[curr].words), cache |-> c]
    ELSE IF word[i] = WILD
    THEN LET after == getitem_children(t, c, curr, Suffix(word, i), Len(t[curr].data))
         IN  [res |-> UNION {after[<<Append(curr, k), Suffix(word, i)>>] :
                                k \in Range(t[curr].data)},
              cache |-> after]
    ELSE IF word[i] \notin Range(t[curr].data)
    THEN [res |-> {}, cache |-> c]
    ELSE getitem_walk(t, c, Append(curr, word[i]), word, i + 1)

\* the cache after node n was asked for word with cache c
getitem_call(t, c, n, word) ==
    IF <<n, word>> \in DOMAIN c
    THEN c
    ELSE LET r == getitem_walk(t, c, n, word, 1)
         IN  (<<n, word>> :> r.res) @@ r.cache

\* PrefixTree.__getitem__ behind lru_cache: what node n returns for word
getitem(t, c, n, word) == getitem_call(t, c, n, word)[<<n, word>>]

RECURSIVE contains_probe(_, _, _, _)
RECURSIVE contains_walk(_, _, _, _, _)

\* the wildcard loop of __contains__ from the j-th key of self.data, self being
\* the root whatever node the walk has reached: True at the first child whose
\* result is non-empty
contains_probe(t, c, word, j) ==
    IF j > Len(t[<<>>].data)
    THEN [res |-> FALSE, cache |-> c]
    ELSE LET k == t[<<>>].data[j]
             after == getitem_call(t, c, <<k>>, word)
         IN  IF after[<<<<k>>, word>>] # {}
             THEN [res |-> TRUE, cache |-> after]
             ELSE contains_probe(t, after, word, j + 1)

contains_walk(t, c, curr, item, i) ==
    IF i > Len(item)
    THEN [res |-> t[curr].is_terminal, cache |-> c]
    ELSE IF item[i] = WILD
    THEN contains_probe(t, c, Suffix(item, i), 1)
    ELSE IF item[i] \notin Range(t[curr].data)
    THEN [res |-> FALSE, cache |-> c]
    ELSE contains_walk(t, c, Append(curr, item[i]), item, i + 1)

\* PrefixTree.__contains__ on the root: what it returns, and the cache then
contains(t, c, item) == contains_walk(t, c, <<>>, item, 1)

\* every word some node records
AddedWords(t) == UNION {Range(t[n].words) : n \in DOMAIN t}

\* the words of S that agree with pattern at every position that is no wildcard
Matching(S, pattern) ==
    {w \in S : /\ Len(w) = Len(pattern)
               /\ \A p \in DOMAIN pattern : pattern[p] # WILD => w[p] = pattern[p]}

---------------------------------------------------------------------------
(* variants_of, get_valid_word_set_after_exclusions *)

\* map("".join, it.product(*zip(word, other))): at each position the letter
\* first and the wildcard second, the first position varying slowest
RECURSIVE product_of_zip(_)
product_of_zip(word) ==
    IF word = <<>>
    THEN << <<>> >>
    ELSE LET rest == product_of_zip(Tail(word))
             n == Len(rest)
         IN  [j \in 1..(2 * n) |->
                 IF j <= n THEN <<Head(word)>> \o rest[j]
                           ELSE <<WILD>> \o rest[j - n]]

\* variants_of with the excludes taken from the positions left unknown
variants_of_by_position(word) ==
    LET vs == product_of_zip(word)
    IN  [j \in DOMAIN vs |->
            <<vs[j], {word[p] : p \in {q \in DOMAIN word : vs[j][q] = WILD}}>>]

\* variants_of(word): the list of (variant, excludes) pairs
variants_of(word) ==
    LET vs == product_of_zip(word)
        sw == Range(word)
    IN  [j \in DOMAIN vs |-> <<vs[j], sw \ Range(vs[j])>>]

\* the filter with any() in place of all()
valid_if_any_letter_allowed(word_set, excluded_letters_from_word) ==
    {w \in word_set : \E i \in DOMAIN w : w[i] \notin excluded_letters_from_word}

get_valid_word_set_after_exclusions(word_set, excluded_letters_from_word) ==
    {w \in word_set : \A i \in DOMAIN w : w[i] \notin excluded_letters_from_word}

---------------------------------------------------------------------------
(* it.product over a list of lists, and the body of the inner loop of main *)

\* number of tuples of it.product(*lists) that share the choices at positions 1..i
RECURSIVE Stride(_, _)
Stride(lists, i) ==
    IF i >= Len(lists) THEN 1 ELSE Len(lists[i + 1]) * Stride(lists, i + 1)

NumProduct(lists) == Stride(lists, 0)

\* the c-th tuple (from 0) of it.product(*lists): the last position varies fastest
product_at(lists, c) ==
    [i \in DOMAIN lists |-> lists[i][((c \div Stride(lists, i)) % Len(lists[i])) + 1]]

\* the lru_cache of __getitem__ after tree[ves[1][1]], ..., tree[ves[i][1]]
RECURSIVE cache_after(_, _, _, _)
cache_after(t, c, ves, i) ==
    IF i = 0
    THEN c
    ELSE getitem_call(t, cache_after(t, c, ves, i - 1), <<>>, ves[i][1])

\* trees = [tree[ve[0]] for ve in variants_and_exclusions]: each result is
\* in the cache once its call has returned
trees_of(after, ves) == [i \in DOMAIN ves |-> after[<<<<>>, ves[i][1]>>]]

\* [get_valid_word_set_after_exclusions(t, ve[1]) for t, ve in zip(trees, ves)]
remaining_of(ts, ves) ==
    [i \in DOMAIN ves |-> get_valid_word_set_after_exclusions(ts[i], ves[i][2])]

\* set.intersection(*sets), of at least one set
RECURSIVE set_intersection_upto(_, _)
set_intersection_upto(sets, i) ==
    IF i = 1 THEN sets[1] ELSE set_intersection_upto(sets, i - 1) \cap sets[i]

\* the last guess's set alone
set_intersection_last_only(sets) == sets[Len(sets)]

set_intersection(sets) == set_intersection_upto(sets, Len(sets))

\* the intersection the inner loop computes for the combination ves, on tree t
\* with cache c
intersection_of(t, c, ves) ==
    set_intersection(remaining_of(trees_of(cache_after(t, c, ves, Len(ves)), ves), ves))

\* the comparison turned around
worst_case_inverted(score, worst) == IF score < worst THEN score ELSE worst

\* if score > worst_case_variant_score: worst_case_variant_score = score
worst_case(score, worst) == IF score > worst THEN score ELSE worst

---------------------------------------------------------------------------
(* sorted(pair_scores[:100], reverse=True) *)

\* Python's < on two sequences of letters
RECURSIVE WordLess(_, _)
WordLess(x, y) ==
    IF y = <<>> THEN FALSE
    ELSE IF x = <<>> THEN TRUE
    ELSE IF Head(x) # Head(y) THEN Ord(Head(x)) < Ord(Head(y))
    ELSE WordLess(Tail(x), Tail(y))

\* Python's < on two tuples of words
RECURSIVE TupleLess(_, _)
TupleLess(x, y) ==
    IF y = <<>> THEN FALSE
    ELSE IF x = <<>> THEN TRUE
    ELSE IF Head(x) # Head(y) THEN WordLess(Head(x), Head(y))
    ELSE TupleLess(Tail(x), Tail(y))

\* Python's < on two (score, tuple) pairs
PairLess(a, b) == a[1] < b[1] \/ (a[1] = b[1] /\ TupleLess(a[2], b[2]))

RemoveAt(s, m) == [j \in 1..(Len(s) - 1) |-> IF j < m THEN s[j] ELSE s[j + 1]]

RECURSIVE sorted_reverse(_)
sorted_reverse(s) ==
    IF s = <<>>
    THEN <<>>
    ELSE LET m == CHOOSE i \in DOMAIN s : \A j \in DOMAIN s : ~PairLess(s[i], s[j])
         IN  <<s[m]>> \o sorted_reverse(RemoveAt(s, m))

\* pair_scores[:100]
first_k(s) == SubSeq(s, 1, IF Len(s) < TopK THEN Len(s) ELSE TopK)

---------------------------------------------------------------------------
(* main() *)

\* construct_prefix_tree_from_word_list: one iteration of its loop, or its return
construct_prefix_tree_from_word_list ==
    /\ pc = "build"
    /\ \/ /\ built < Len(vocabulary)
          /\ tree' = add(tree, vocabulary[built + 1])
          /\ built' = built + 1
          /\ pc' = pc
       \/ /\ built = Len(vocabulary)
          /\ pc' = "select"
          /\ UNCHANGED <<tree, built>>
    /\ UNCHANGED <<cache, vocabulary, selections, sel, selected_words, variants,
                   combo, variants_and_exclusions, trees,
                   remaining_words_for_each_variant, intersection,
                   worst_case_variant_score, pair_scores, printed>>
    /\ UNCHANGED apiVars

\* the outer for loop: take the next tuple, or leave the loop
next_selected_words ==
    /\ pc = "select"
    /\ \/ /\ sel < Len(selections)
          /\ sel' = sel + 1
          /\ selected_words' = selections[sel + 1]
          /\ worst_case_variant_score' = 0
          /\ variants' = [i \in DOMAIN selections[sel + 1] |->
                             variants_of(selections[sel + 1][i])]
          /\ combo' = 0
          /\ pc' = "combos"
       \/ /\ sel = Len(selections)
          /\ pc' = "report"
          /\ UNCHANGED <<sel, selected_words, worst_case_variant_score, variants, combo>>
    /\ UNCHANGED <<vocabulary, built, selections, variants_and_exclusions, trees,
                   remaining_words_for_each_variant, intersection, pair_scores,
                   printed>>
    /\ UNCHANGED indexVars
    /\ UNCHANGED apiVars

\* one iteration of the inner for loop
score_combination ==
    /\ pc = "combos"
    /\ combo < NumProduct(variants)
    /\ LET ves == product_at(variants, combo)
           after == cache_after(tree, cache, ves, Len(ves))
           ts == trees_of(after, ves)
           rem == remaining_of(ts, ves)
           inter == set_intersection(rem)
           score == Cardinality(inter)
       IN  /\ variants_and_exclusions' = ves
           /\ trees' = ts
           /\ cache' = after
           /\ remaining_words_for_each_variant' = rem
           /\ intersection' = inter
           /\ worst_case_variant_score' = worst_case(score, worst_case_variant_score)
    /\ combo' = combo + 1
    /\ UNCHANGED <<tree, pc, vocabulary, built, selections, sel, selected_words,
                   variants, pair_scores, printed>>
    /\ UNCHANGED apiVars

\* after the inner loop: pair_scores.append(...)
append_pair_score ==
    /\ pc = "combos"
    /\ combo = NumProduct(variants)
    /\ pair_scores' = Append(pair_scores, <<worst_case_variant_score, selected_words>>)
    /\ pc' = "select"
    /\ UNCHANGED <<vocabulary, built, selections, sel, selected_words, variants,
                   combo, variants_and_exclusions, trees,
                   remaining_words_for_each_variant, intersection,
                   worst_case_variant_score, printed>>
    /\ UNCHANGED indexVars
    /\ UNCHANGED apiVars

\* print(*sorted(pair_scores[:100], reverse=True), sep="\n")
print_pair_scores ==
    /\ pc = "report"
    /\ printed' = sorted_reverse(first_k(pair_scores))
    /\ pc' = "done"
    /\ UNCHANGED <<vocabulary, built, selections, sel, selected_words, variants,
                   combo, variants_and_exclusions, trees,
                   remaining_words_for_each_variant, intersection,
                   worst_case_variant_score, pair_scores>>
    /\ UNCHANGED indexVars
    /\ UNCHANGED apiVars

main ==
    \/ construct_prefix_tree_from_word_list
    \/ next_selected_words
    \/ score_combination
    \/ append_pair_score
    \/ print_pair_scores

---------------------------------------------------------------------------
(* Initial states *)

NoCall == [kind |-> "none", arg |-> <<>>]

\* everything but the inputs of main(): a fresh PrefixTree, empty caches
Fresh ==
    /\ tree = EmptyTree
    /\ cache = <<>>
    /\ op = NoCall
    /\ ret = {}
    /\ ops = 0
    /\ built = 0
    /\ sel = 0
    /\ selected_words = <<>>
    /\ variants = <<>>
    /\ combo = 0
    /\ variants_and_exclusions = <<>>
    /\ trees = <<>>
    /\ remaining_words_for_each_variant = <<>>
    /\ intersection = {}
    /\ worst_case_variant_score = 0
    /\ pair_scores = <<>>
    /\ printed = <<>>

\* word lists of at most MaxVocab words of S, duplicates allowed, in
\* non-decreasing order (the order of insertion changes no query result)
RECURSIVE WordLists(_, _)
WordLists(S, n) ==
    IF n = 0
    THEN {<<>>}
    ELSE LET shorter == WordLists(S, n - 1)
         IN  shorter \cup
             {Append(l, w) : l \in {x \in shorter : Len(x) = n - 1}, w \in S} 

Sorted(l) == \A i \in 1..(Len(l) - 1) : ~WordLess(l[i + 1], l[i])

\* random.sample(guess_words, SampleSize): SampleSize distinct words, any order
Samples ==
    {s \in SeqsOfLen(Words, SampleSize) :
        \A i, j \in DOMAIN s : i # j => s[i] # s[j]}

product_list(lists) == [c \in 1..NumProduct(lists) |-> product_at(lists, c - 1)]

\* main() on any vocabulary, words of two lengths and the empty list included
Init ==
    /\ Fresh
    /\ pc = "build"
    /\ vocabulary \in {l \in WordLists(Words \cup ShortWords, MaxVocab) : Sorted(l)}
    /\ \E samples \in SeqsOfLen(Samples, NumPositions) :
           selections = product_list(samples)

Spec == Init /\ [][main]_vars

---------------------------------------------------------------------------
(* Scoring a tuple and the tuple extended by one more guess *)

rat == <<"r", "a", "t">>
cat == <<"c", "a", "t">>
bat == <<"b", "a", "t">>
zat == <<"z", "a", "t">>
rzz == <<"r", "z", "z">>

\* the words of the module docstring's example
joint == <<"j", "o", "i", "n", "t">>
point == <<"p", "o", "i", "n", "t">>
twink == <<"t", "w", "i", "n", "k">>
tying == <<"t", "y", "i", "n", "g">>
guars == <<"g", "u", "a", "r", "s">>
chile == <<"c", "h", "i", "l", "e">>
daurs == <<"d", "a", "u", "r", "s">>

\* strictly increasing word lists: no word twice
Increasing(l) == \A i \in 1..(Len(l) - 1) : WordLess(l[i], l[i + 1])

\* main() scoring the one-word tuple (w1) and then (w1, w2), over a vocabulary
\* of words of one length.  Exchanging the two letters everywhere maps a run
\* to a run with the same scores and sizes, so w1 starts with the first
\* letter.  The other initial states are the index examples of the PrefixTree
\* docstring, a vocabulary that lists a word twice, and the guesses of the
\* module docstring scored one, two and three at a time.
InitExtend ==
    /\ Fresh
    /\ pc = "build"
    /\ \/ /\ vocabulary \in {l \in WordLists(Words, MaxVocab) : Increasing(l)}
          /\ \E w1 \in {w \in Words : w[1] = Alphabet[1]}, w2 \in Words :
                 selections = << <<w1>>, <<w1, w2>> >>
       \/ /\ vocabulary \in {<<bat, cat, rat>>, <<rat>>, <<rat, rat>>}
          /\ selections = << <<zat>>, <<zat, rzz>> >>
       \/ /\ vocabulary = <<joint, point, twink, tying>>
          /\ selections = << <<guars>>, <<guars, chile>>, <<guars, chile, daurs>> >>

SpecExtend == InitExtend /\ [][main]_vars

---------------------------------------------------------------------------
(* The example of the module docstring *)

InitExample ==
    /\ Fresh
    /\ pc = "build"
    /\ vocabulary = <<joint, point, twink, tying>>
    /\ selections = << <<guars, chile, daurs>> >>

SpecExample == InitExample /\ [][main]_vars

---------------------------------------------------------------------------
(* The index used through its methods, in any order *)

api_add(w) ==
    /\ ops < MaxOps
    /\ tree' = add(tree, w)
    /\ op' = [kind |-> "add", arg |-> w]
    /\ ret' = {}
    /\ ops' = ops + 1
    /\ UNCHANGED cache
    /\ UNCHANGED mainVars

api_getitem(word) ==
    /\ ops < MaxOps
    /\ ret' = getitem(tree, cache, <<>>, word)
    /\ cache' = getitem_call(tree, cache, <<>>, word)
    /\ op' = [kind |-> "getitem", arg |-> word]
    /\ ops' = ops + 1
    /\ UNCHANGED tree
    /\ UNCHANGED mainVars

api_contains(item) ==
    /\ ops < MaxOps
    /\ ret' = contains(tree, cache, item).res
    /\ cache' = contains(tree, cache, item).cache
    /\ op' = [kind |-> "contains", arg |-> item]
    /\ ops' = ops + 1
    /\ UNCHANGED tree
    /\ UNCHANGED mainVars

InitIndex ==
    /\ Fresh
    /\ pc = "api"
    /\ vocabulary = <<>>
    /\ selections = <<>>

NextIndex ==
    \/ \E w \in Words : api_add(w)
    \/ \E word \in Patterns : api_getitem(word)
    \/ \E item \in Patterns : api_contains(item)

SpecIndex == InitIndex /\ [][NextIndex]_vars

---------------------------------------------------------------------------
(* Reference semantics, stated without the index, the variants or the filter *)

\* the pattern of word w that keeps the positions K
PatternOf(w, K) == [p \in DOMAIN w |-> IF p \in K THEN w[p] ELSE WILD]

Kept(pattern) == {p \in DOMAIN pattern : pattern[p] # WILD}

\* the letters of w that stand at none of the kept positions K
ExcludedOf(w, K) == Range(w) \ {w[p] : p \in K}

\* the vocabulary words consistent with keeping positions K[i] of guess t[i],
\* for every guess of the tuple t
Consistent(t, K) ==
    {w \in Range(vocabulary) :
        \A i \in DOMAIN t :
            /\ Len(w) = Len(t[i])
            /\ \A p \in K[i] : w[p] = t[i][p]
            /\ Range(w) \cap ExcludedOf(t[i], K[i]) = {}}

KeptChoices(t) == [DOMAIN t -> SUBSET (1..Len(t[1]))]

RefScore(t) ==
    LET sizes == {Cardinality(Consistent(t, K)) : K \in KeptChoices(t)}
    IN  CHOOSE m \in sizes : \A n \in sizes : n <= m

Scored == pc = "select" /\ Len(pair_scores) > 0
LastScored == pair_scores[Len(pair_scores)]
Iterated == pc = "combos" /\ combo > 0

---------------------------------------------------------------------------
(* Claims *)

\* C1: when the scoring loop has finished a tuple, the score it appends is
\* the maximum, over all choices of kept positions for every guess, of the
\* number of vocabulary words that match each guess at its kept positions and
\* contain none of its excluded letters; it lies between 0 and the vocabulary
\* size.
C1_ScoreIsMaximum ==
    Scored =>
        /\ LastScored[1] = RefScore(LastScored[2])
        /\ LastScored[1] \in 0..Len(vocabulary)

C1_Witness ==
    /\ Scored
    /\ Len(LastScored[2]) = 2
    /\ LastScored[1] = 2

\* C2: on an index built from a whole vocabulary, every query the scorer makes
\* returns exactly the vocabulary words that agree with the pattern at every
\* position that is no wildcard.
C2_QueryReturnsMatches ==
    Iterated =>
        \A i \in DOMAIN trees :
            trees[i] = Matching(Range(vocabulary), variants_and_exclusions[i][1])

\* over {rat, cat, bat}: query(".at") is all three, query("r..") is {rat}
C2_Witness ==
    /\ Iterated
    /\ Len(selected_words) = 2
    /\ vocabulary = <<bat, cat, rat>>
    /\ variants_and_exclusions[1][1] = <<WILD, "a", "t">>
    /\ trees[1] = {rat, cat, bat}
    /\ variants_and_exclusions[2][1] = <<"r", WILD, WILD>>
    /\ trees[2] = {rat}

\* C3: the variants computed for every word w of the tuple are 2^L entries,
\* every pattern of length L, exactly one entry per set of kept positions, and
\* every entry excludes the letters of w minus the letters at its kept
\* positions.
C3_VariantsOfWord ==
    (pc = "combos" /\ combo = 0) =>
        \A i \in DOMAIN selected_words :
            LET w == selected_words[i]
                V == variants[i]
            IN  /\ Len(V) = 2 ^ Len(w)
                /\ \A j \in DOMAIN V :
                       /\ Len(V[j][1]) = Len(w)
                       /\ V[j][1] = PatternOf(w, Kept(V[j][1]))
                       /\ V[j][2] = ExcludedOf(w, Kept(V[j][1]))
                /\ \A K \in SUBSET (DOMAIN w) :
                       Cardinality({j \in DOMAIN V : V[j][1] = PatternOf(w, K)}) = 1

\* a word with a repeated letter
C3_Witness ==
    /\ pc = "combos"
    /\ combo = 0
    /\ \E i \in DOMAIN selected_words :
           selected_words[i][1] = selected_words[i][2]

\* the intersection of the c-th combination the inner loop will enumerate
Enumerated(c) == intersection_of(tree, cache, product_at(variants, c))

LoopEntered == pc = "combos" /\ combo = 0

C5_ReportKeepsLowest ==
    pc = "done" =>
        \A i \in DOMAIN pair_scores :
            pair_scores[i] \notin Range(printed) =>
                \A j \in DOMAIN printed : ~(pair_scores[i][1] < printed[j][1])

\* C6: the index is handed to the caller only when the vocabulary is not
\* empty and all its words have one length.
C6_InvalidVocabularyRejected ==
    pc # "build" =>
        /\ vocabulary # <<>>
        /\ \A i, j \in DOMAIN vocabulary : Len(vocabulary[i]) = Len(vocabulary[j])

\* C7: for the tuple just scored, every word of the vocabulary is in the
\* intersection of at least one enumerated combination.
C7_EverySolutionCovered ==
    Scored =>
        LET vs == [i \in DOMAIN LastScored[2] |-> variants_of(LastScored[2][i])]
        IN  \A s \in Range(vocabulary) :
                \E c \in 0..(NumProduct(vs) - 1) :
                    s \in intersection_of(tree, cache, product_at(vs, c))

\* C8: every query returns exactly the words added before it that match the
\* pattern.
C8_QueryNeverStale ==
    op.kind = "getitem" => ret = Matching(AddedWords(tree), op.arg)

\* C10: `pattern in index` is true exactly when query(pattern) is non-empty,
\* and for a word without wildcards exactly when the word was added.
C10_ContainsAgreesWithQuery ==
    op.kind = "contains" =>
        /\ ret <=> (getitem(tree, cache, <<>>, op.arg) # {})
        /\ WILD \notin Range(op.arg) => (ret <=> op.arg \in AddedWords(tree))

\* C9: the score of a tuple extended by one more guess is at most the score
\* of the tuple.
C9_ExtensionNeverIncreases ==
    \A i, j \in DOMAIN pair_scores :
        (/\ Len(pair_scores[j][2]) = Len(pair_scores[i][2]) + 1
         /\ SubSeq(pair_scores[j][2], 1, Len(pair_scores[i][2])) = pair_scores[i][2])
            => pair_scores[j][1] <= pair_scores[i][1]

\* the further guess lowers the score
C9_Witness ==
    /\ Len(pair_scores) = 2
    /\ pair_scores[2][2] = Append(pair_scores[1][2], pair_scores[2][2][2])
    /\ pair_scores[2][1] < pair_scores[1][1]

=============================================================================
